---- MODULE Spec2Model ----
(***************************************************************************)
(* Model of vfp._processor: the Processor class (process, query, stop,     *)
(* keyboard_interrupt, _check, _retrieve_info) and decode_fourcc, run      *)
(* against a cv2.VideoCapture source that opens or fails to open and holds *)
(* a finite number of frames.                                              *)
(***************************************************************************)
EXTENDS Integers, Sequences, FiniteSets, TLC

(* ------------------------------ bounds -------------------------------- *)
MaxStride == 2
MaxCap == 3
MaxFrames == 6
TwoFrames == 2      \* the longest source of the two-instance specification
MaxReads == 4       \* frames explored of a source that never ends

(* ------------------------- program constants -------------------------- *)
LOGGING_TYPE_INFO == 1
LOGGING_TYPE_DEBUG == 2
LOGGING_TYPE_ERROR == 3

(* Python's None, for the selectors. *)
None == "None"

(* The paths a caller may pass as video_file, and what os.path says of them. *)
Paths == {"missing", "dir", "file"}
WebcamIds == {"cam0"}

exists(path) == path \in {"dir", "file"}
isdir(path) == path = "dir"

(* A mapping that holds no key: the value of an absent dict (None). *)
NoDict == [k \in {} |-> 0]

VARIABLES
  nth_frame,             \* self.nth_frame
  max_frames,            \* self.max_frames
  process_frame,         \* TRUE iff self.process_frame is not None
  processing_finished,   \* TRUE iff self.processing_finished is not None
  webcam_id,             \* self._webcam_id
  video_file,            \* self._video_file
  stopped,               \* self._stopped
  is_processing_frames,  \* self.is_processing_frames
  params,                \* self.params: video_capture (which handle), info
  op,                    \* the call in progress: "none", "process", "query"
  pc,                    \* where the call in progress stands
  video_capture,         \* the cv2.VideoCapture object of the call
  frame_no,              \* local frame_no of process
  video_capture_opened,  \* local video_capture_opened of process
  result,                \* local result of query (NoDict is None)
  raisedBy,              \* what raised out of the call ("" when nothing did)
  trace,                 \* what the call did so far, in order
  self,                  \* which Processor instance the variables above are of
  peer,                  \* the fields of the other Processor instance
  params_id,             \* which Parameters object self.params refers to
  fourcc                 \* a decode_fourcc call: its argument and its result

vars == <<nth_frame, max_frames, process_frame, processing_finished, webcam_id,
          video_file, stopped, is_processing_frames, params, op, pc,
          video_capture, frame_no, video_capture_opened, result, raisedBy, trace,
          self, peer, params_id, fourcc>>

(* What the steps of a call on one instance never write. *)
others == <<self, peer, params_id, fourcc>>

config == <<nth_frame, max_frames, process_frame, processing_finished>>

Ev(e, a) == [ev |-> e, arg |-> a]

(* The cv2.VideoCapture object before the call has created one. *)
NoCapture == [kind |-> "none", opened |-> FALSE, released |-> FALSE,
              frames |-> 0, pos |-> 0]

(* ----------------------------- decode_fourcc -------------------------- *)
RECURSIVE Pow2(_)
Pow2(n) == IF n = 0 THEN 1 ELSE 2 * Pow2(n - 1)

(* (int(cc) >> 8 * i) & 0xFF *)
ByteAt(cc, i) == (cc \div Pow2(8 * i)) % 256

(* Mutant: most-significant byte first. *)
decode_fourcc_BigEndian(cc) == [i \in 1..4 |-> ByteAt(cc, 4 - i)]

(* "".join([chr(...) for i in range(4)]): the string as its character codes *)
decode_fourcc(cc) == [i \in 1..4 |-> ByteAt(cc, i - 1)]

(* ------------------------ the source's properties --------------------- *)
(* video_capture.get(prop) of an opened source: every property reads a     *)
(* value of its own, so that two entries read from different properties    *)
(* differ.                                                                 *)
CapProps ==
  <<"CAP_PROP_FPS", "CAP_PROP_FRAME_WIDTH", "CAP_PROP_FRAME_HEIGHT",
    "CAP_PROP_BRIGHTNESS", "CAP_PROP_CONTRAST", "CAP_PROP_SATURATION",
    "CAP_PROP_HUE", "CAP_PROP_GAIN", "CAP_PROP_EXPOSURE",
    "CAP_PROP_WB_TEMPERATURE", "CAP_PROP_GAMMA", "CAP_PROP_TEMPERATURE",
    "CAP_PROP_ZOOM", "CAP_PROP_FOCUS", "CAP_PROP_ISO_SPEED",
    "CAP_PROP_BACKLIGHT", "CAP_PROP_PAN", "CAP_PROP_TILT", "CAP_PROP_ROLL",
    "CAP_PROP_IRIS", "CAP_PROP_AUTOFOCUS", "CAP_PROP_AUTO_EXPOSURE",
    "CAP_PROP_SHARPNESS", "CAP_PROP_MONOCHROME", "CAP_PROP_SAR_NUM",
    "CAP_PROP_SAR_DEN", "CAP_PROP_AUTO_WB", "CAP_PROP_FRAME_COUNT",
    "CAP_PROP_BITRATE">>

get(vc, prop) ==
  CASE prop = "CAP_PROP_FOURCC" -> 1196444237              \* "MJPG"
    [] prop = "CAP_PROP_CODEC_PIXEL_FORMAT" -> 808596553   \* "I420"
    [] prop = "CAP_PROP_FRAME_COUNT" -> vc.frames
    [] OTHER -> CHOOSE i \in 1..Len(CapProps) : CapProps[i] = prop

(* ----------------------------- _retrieve_info ------------------------- *)
(* One assignment result[key] = ...get(prop), decoded when dec is TRUE.   *)
Entry(key, prop, dec) == [key |-> key, prop |-> prop, dec |-> dec]

CommonEntries ==
  << Entry("fps", "CAP_PROP_FPS", FALSE),
     Entry("width", "CAP_PROP_FRAME_WIDTH", FALSE),
     Entry("height", "CAP_PROP_FRAME_HEIGHT", FALSE),
     Entry("codec", "CAP_PROP_FOURCC", TRUE) >>

WebcamEntries ==
  << Entry("brightness", "CAP_PROP_CONTRAST", FALSE),
     Entry("contrast", "CAP_PROP_CONTRAST", FALSE),
     Entry("saturation", "CAP_PROP_SATURATION", FALSE),
     Entry("hue", "CAP_PROP_HUE", FALSE),
     Entry("gain", "CAP_PROP_GAIN", FALSE),
     Entry("exposure", "CAP_PROP_EXPOSURE", FALSE),
     Entry("whitebalance", "CAP_PROP_WB_TEMPERATURE", FALSE),
     Entry("gamma", "CAP_PROP_GAMMA", FALSE),
     Entry("temperature", "CAP_PROP_TEMPERATURE", FALSE),
     Entry("zoom", "CAP_PROP_ZOOM", FALSE),
     Entry("focus", "CAP_PROP_FOCUS", FALSE),
     Entry("iso_speed", "CAP_PROP_ISO_SPEED", FALSE),
     Entry("backlight", "CAP_PROP_BACKLIGHT", FALSE),
     Entry("pan", "CAP_PROP_PAN", FALSE),
     Entry("tilt", "CAP_PROP_TILT", FALSE),
     Entry("roll", "CAP_PROP_ROLL", FALSE),
     Entry("iris", "CAP_PROP_IRIS", FALSE),
     Entry("auto_focus", "CAP_PROP_AUTOFOCUS", FALSE),
     Entry("auto_exposure", "CAP_PROP_AUTO_EXPOSURE", FALSE),
     Entry("sharpness", "CAP_PROP_SHARPNESS", FALSE),
     Entry("monochrome", "CAP_PROP_MONOCHROME", FALSE),
     Entry("sample_aspect_ratio_num", "CAP_PROP_SAR_NUM", FALSE),
     Entry("sample_aspect_ratio_den", "CAP_PROP_SAR_DEN", FALSE),
     Entry("auto_white_balance", "CAP_PROP_AUTO_WB", FALSE),
     Entry("white_balance_temperature", "CAP_PROP_WB_TEMPERATURE", FALSE) >>

FileEntries ==
  << Entry("frame_count", "CAP_PROP_FRAME_COUNT", FALSE),
     Entry("bitrate", "CAP_PROP_BITRATE", FALSE),
     Entry("pixel_format", "CAP_PROP_CODEC_PIXEL_FORMAT", TRUE) >>

(* The branch of _retrieve_info: on self._webcam_id, not on what was opened. *)
IsWebcamInfo(wid) == wid # None

(* The dict the assignments build: for each key, the last assignment to it. *)
retrieve_info(vc, wid) ==
  LET es == CommonEntries \o (IF IsWebcamInfo(wid) THEN WebcamEntries ELSE FileEntries)
      keys == {es[i].key : i \in 1..Len(es)}
      last(k) == CHOOSE i \in 1..Len(es) :
                   /\ es[i].key = k
                   /\ \A j \in 1..Len(es) : es[j].key = k => j <= i
      val(e) == IF e.dec THEN decode_fourcc(get(vc, e.prop)) ELSE get(vc, e.prop)
  IN [k \in keys |-> val(es[last(k)])]

(* Mutant: _check without the directory test. *)
check_NoDirTest(wid, vf, pf) ==
  IF wid = None /\ vf = None THEN "Neither webcam ID nor video file supplied!"
  ELSE IF vf # None /\ ~exists(vf) THEN "Video file does not exist"
  ELSE IF ~pf THEN "No method for processing frames supplied!"
  ELSE ""

(* -------------------------------- _check ------------------------------ *)
(* The exception _check raises, "" when it raises none. pf: process_frame  *)
(* is configured.                                                          *)
check(wid, vf, pf) ==
  IF wid = None /\ vf = None THEN "Neither webcam ID nor video file supplied!"
  ELSE IF vf # None /\ ~exists(vf) THEN "Video file does not exist"
  ELSE IF vf # None /\ isdir(vf) THEN "Video file points to directory"
  ELSE IF ~pf THEN "No method for processing frames supplied!"
  ELSE ""

(* What the call opens: the file when a path is given, else the webcam. *)
OpenKind(wid, vf) == IF vf # None THEN "file" ELSE "webcam"

(* Mutant: the handle exists, whether or not it opened. *)
isOpened_AnyHandle(vc) == vc.kind # "none"

(* video_capture.isOpened() *)
isOpened(vc) == vc.opened

(* --------------------------- the read loop ---------------------------- *)
(* Mutant: the loop condition forgets the stop flag. *)
LoopCond_IgnoresStop(vc, stp) == isOpened(vc)

(* while video_capture.isOpened() and not self.is_stopped *)
LoopCond(vc, stp) == isOpened(vc) /\ ~stp

(* Mutant: frames numbered from 0. *)
IsNthFrame_ZeroBased(fno, nth) == ((fno - 1) % nth) = 0

(* (frame_no % self.nth_frame) == 0 *)
IsNthFrame(fno, nth) == (fno % nth) = 0

(* Mutant: the cap counts the process_frame calls, not the frames read. *)
LimitReached_CountsCalls(fno, maxf) ==
  (maxf > 0) /\ (Len(SelectSeq(trace, LAMBDA x : x.ev = "process_frame")) >= maxf)

(* Mutant: > for >=. *)
LimitReached_Strict(fno, maxf) == (maxf > 0) /\ (fno > maxf)

(* (self.max_frames > 0) and (frame_no >= self.max_frames) *)
LimitReached(fno, maxf) == (maxf > 0) /\ (fno >= maxf)

(* The Parameters object the def statement of __init__ creates once, as    *)
(* the default of params: every Processor() built without params gets it.  *)
DefaultParams == "default"

(* A Processor as Processor() leaves it: every argument at its default. *)
DefaultProcessor ==
  [nth_frame |-> 1, max_frames |-> -1, process_frame |-> FALSE,
   processing_finished |-> FALSE, webcam_id |-> None, video_file |-> None,
   stopped |-> FALSE, is_processing_frames |-> FALSE,
   params_id |-> DefaultParams,
   params |-> [video_capture |-> "none", info |-> NoDict]]

(* No decode_fourcc call under way. *)
NoFourcc == [bytes |-> <<>>, cc |-> 0, out |-> <<>>, done |-> FALSE]

(* ------------------------------- Init --------------------------------- *)
Init ==
  /\ self = 1
  /\ peer = DefaultProcessor
  /\ params_id = DefaultParams
  /\ fourcc = NoFourcc
  /\ nth_frame \in 1..MaxStride
  /\ max_frames \in -1..MaxCap
  /\ process_frame \in BOOLEAN
  /\ processing_finished \in BOOLEAN
  /\ webcam_id = None
  /\ video_file = None
  /\ stopped = FALSE
  /\ is_processing_frames = FALSE
  /\ params = [video_capture |-> "none", info |-> NoDict]
  /\ op = "none"
  /\ pc = "idle"
  /\ video_capture = NoCapture
  /\ frame_no = 0
  /\ video_capture_opened = FALSE
  /\ result = NoDict
  /\ raisedBy = ""
  /\ trace = <<>>

(* Mutant: the flag is not reset when a call starts. *)
StoppedAtStart_Kept(stp) == stp

(* Lines 322 and 376: self._stopped = False *)
StoppedAtStart(stp) == FALSE

(* No call is in progress: the caller may start one. *)
Idle == pc \in {"idle", "returned", "raised"}

(* Lines 322-325 (process) and 376-379 (query): reset the flag, record the *)
(* selectors, run _check; the handle an earlier call left in params is now *)
(* an old one.                                                             *)
Start(o, wid, vf) ==
  /\ Idle
  /\ op' = o
  /\ stopped' = StoppedAtStart(stopped)
  /\ webcam_id' = wid
  /\ video_file' = vf
  /\ params' = [params EXCEPT !.video_capture =
                  IF @ = "none" THEN "none" ELSE "old"]
  /\ video_capture' = NoCapture
  /\ frame_no' = 0
  /\ video_capture_opened' = FALSE
  /\ result' = NoDict
  /\ trace' = <<>>
  /\ IF check(wid, vf, process_frame) # ""
       THEN pc' = "raised" /\ raisedBy' = "_check"
       ELSE pc' = "open" /\ raisedBy' = ""
  /\ UNCHANGED <<others, config, is_processing_frames>>

process(wid, vf) == Start("process", wid, vf)

query(wid, vf) == Start("query", wid, vf)

(* self.info / self.error through the configured logging function. *)
Log(tr, level) == Append(tr, Ev("log", level))

(* Mutant: query runs the read loop of process. *)
AfterOpen_AlwaysLoop(o) == "while"

(* After a successful open process enters its read loop (line 345); query  *)
(* has none and goes on to release the handle (line 395).                  *)
AfterOpen(o) == IF o = "process" THEN "while" ELSE "release"

(* Lines 327-343 (process) and 381-393 (query): cv2.VideoCapture(...) opens *)
(* the source or fails to; the handle goes to params; on success the info  *)
(* is retrieved (into params.info by process, into result by query).       *)
Open(ok, n) ==
  /\ pc = "open"
  /\ LET vc == [kind |-> OpenKind(webcam_id, video_file), opened |-> ok,
                released |-> FALSE, frames |-> IF ok THEN n ELSE 0, pos |-> 0]
         tr == Append(Log(trace, LOGGING_TYPE_INFO), Ev("open", IF ok THEN 1 ELSE 0))
     IN /\ video_capture' = vc
        /\ frame_no' = 0
        /\ IF ~isOpened(vc)
             THEN /\ trace' = Log(tr, LOGGING_TYPE_ERROR)
                  /\ video_capture_opened' = FALSE
                  /\ result' = NoDict
                  /\ params' = [params EXCEPT !.video_capture = "current"]
                  /\ pc' = "release"
             ELSE /\ trace' = tr
                  /\ video_capture_opened' = (op = "process")
                  /\ result' = IF op = "query"
                                 THEN retrieve_info(vc, webcam_id) ELSE NoDict
                  /\ params' = [video_capture |-> "current",
                                info |-> IF op = "process"
                                           THEN retrieve_info(vc, webcam_id)
                                           ELSE params.info]
                  /\ pc' = AfterOpen(op)
  /\ UNCHANGED <<others, config, webcam_id, video_file, stopped, is_processing_frames,
                 op, raisedBy>>

(* Line 345: the loop condition. *)
While ==
  /\ pc = "while"
  /\ pc' = IF LoopCond(video_capture, stopped) THEN "read" ELSE "release"
  /\ UNCHANGED <<others, config, webcam_id, video_file, stopped, is_processing_frames,
                 params, op, video_capture, frame_no, video_capture_opened,
                 result, raisedBy, trace>>

(* The frame count of a source that never ends (a live device). *)
Endless == -1

(* ret of video_capture.read(): the source has a frame to give. *)
HasFrame(vc) == vc.frames = Endless \/ vc.pos < vc.frames

(* Where nothing but a stop request can end the run, MaxReads frames of an *)
(* endless source are explored before the request, and the one read that   *)
(* the loop may still make after it (the request falling between the test  *)
(* of line 345 and the read of line 346).                                  *)
ReadExplored ==
  (video_capture.frames = Endless /\ max_frames <= 0)
    => frame_no < MaxReads + (IF stopped THEN 1 ELSE 0)

(* Lines 346-352: read a frame; none left ends the loop; else count it and, *)
(* on every nth frame, raise the busy flag and call process_frame.          *)
Read ==
  /\ pc = "read"
  /\ ReadExplored
  /\ LET ret == HasFrame(video_capture)
         fno == frame_no + 1
         tr == Append(trace, Ev("read", IF ret THEN 1 ELSE 0))
     IN IF ~ret
          THEN /\ pc' = "release"
               /\ trace' = tr
               /\ UNCHANGED <<video_capture, frame_no, is_processing_frames>>
          ELSE /\ video_capture' = [video_capture EXCEPT !.pos = @ + 1]
               /\ frame_no' = fno
               /\ IF IsNthFrame(fno, nth_frame)
                    THEN /\ is_processing_frames' = TRUE
                         /\ trace' = Append(tr, Ev("process_frame", fno))
                         /\ pc' = "process_frame"
                    ELSE /\ trace' = tr
                         /\ pc' = "limit"
                         /\ UNCHANGED is_processing_frames
  /\ UNCHANGED <<others, config, webcam_id, video_file, stopped, params, op,
                 video_capture_opened, result, raisedBy>>

(* Line 353: process_frame returned. *)
FrameReturn ==
  /\ pc = "process_frame"
  /\ is_processing_frames' = FALSE
  /\ pc' = "limit"
  /\ UNCHANGED <<others, config, webcam_id, video_file, stopped, params, op,
                 video_capture, frame_no, video_capture_opened, result,
                 raisedBy, trace>>

(* process_frame raised: nothing in process catches it. *)
FrameRaise ==
  /\ pc = "process_frame"
  /\ pc' = "raised"
  /\ raisedBy' = "process_frame"
  /\ UNCHANGED <<others, config, webcam_id, video_file, stopped, is_processing_frames,
                 params, op, video_capture, frame_no, video_capture_opened,
                 result, trace>>

(* Lines 355-357: the max_frames test at the end of the loop body. *)
Limit ==
  /\ pc = "limit"
  /\ IF LimitReached(frame_no, max_frames)
       THEN pc' = "release" /\ trace' = Log(trace, LOGGING_TYPE_INFO)
       ELSE pc' = "while" /\ trace' = trace
  /\ UNCHANGED <<others, config, webcam_id, video_file, stopped, is_processing_frames,
                 params, op, video_capture, frame_no, video_capture_opened,
                 result, raisedBy>>

(* Line 359 (process) and lines 395-397 (query): release the handle; query *)
(* then returns result.                                                    *)
Release ==
  /\ pc = "release"
  /\ video_capture' = [video_capture EXCEPT !.opened = FALSE, !.released = TRUE]
  /\ trace' = Append(trace, Ev("release", 0))
  /\ pc' = IF op = "process" THEN "finish" ELSE "returned"
  /\ UNCHANGED <<others, config, webcam_id, video_file, stopped, is_processing_frames,
                 params, op, frame_no, video_capture_opened, result, raisedBy>>

(* Mutant: the completion callback only after a successful open. *)
HasFinished_IfOpened(pfin) == pfin /\ video_capture_opened

(* if self.processing_finished is not None *)
HasFinished(pfin) == pfin

(* Lines 361-362: call processing_finished when one is set. *)
Finish ==
  /\ pc = "finish"
  /\ IF HasFinished(processing_finished)
       THEN /\ trace' = Append(trace, Ev("processing_finished",
                                         IF video_capture_opened THEN 1 ELSE 0))
            /\ pc' = "processing_finished"
       ELSE /\ trace' = trace
            /\ pc' = "returned"
  /\ UNCHANGED <<others, config, webcam_id, video_file, stopped, is_processing_frames,
                 params, op, video_capture, frame_no, video_capture_opened,
                 result, raisedBy>>

(* processing_finished returned, and process with it. *)
FinishedReturn ==
  /\ pc = "processing_finished"
  /\ pc' = "returned"
  /\ UNCHANGED <<others, config, webcam_id, video_file, stopped, is_processing_frames,
                 params, op, video_capture, frame_no, video_capture_opened,
                 result, raisedBy, trace>>

(* processing_finished raised. *)
FinishedRaise ==
  /\ pc = "processing_finished"
  /\ pc' = "raised"
  /\ raisedBy' = "processing_finished"
  /\ UNCHANGED <<others, config, webcam_id, video_file, stopped, is_processing_frames,
                 params, op, video_capture, frame_no, video_capture_opened,
                 result, trace>>

(* Mutant: stop() clears the busy flag but does not set _stopped. *)
StopBody_NoFlag(tr, by) ==
  /\ is_processing_frames' = FALSE
  /\ trace' = Append(tr, Ev("stop", by))
  /\ UNCHANGED <<others, config, webcam_id, video_file, stopped, params, op, pc,
                 video_capture, frame_no, video_capture_opened, result, raisedBy>>

(* Lines 220-225: stop(), on the trace tr. by: 1 from inside process_frame, *)
(* 0 from the caller's side (a monitoring thread, a signal handler).       *)
StopBody(tr, by) ==
  /\ stopped' = TRUE
  /\ is_processing_frames' = FALSE
  /\ trace' = Append(tr, Ev("stop", by))
  /\ UNCHANGED <<others, config, webcam_id, video_file, params, op, pc, video_capture,
                 frame_no, video_capture_opened, result, raisedBy>>

StopRequested(by) == \E i \in 1..Len(trace) : trace[i] = Ev("stop", by)

(* stop() called by the process_frame callback while it runs. *)
FrameStop ==
  /\ pc = "process_frame"
  /\ ~StopRequested(1)
  /\ StopBody(trace, 1)

(* stop() called from outside the call, at any moment (once per call). *)
stop ==
  /\ ~StopRequested(0)
  /\ StopBody(trace, 0)

(* Lines 213-218: keyboard_interrupt() logs an error, then stops. *)
keyboard_interrupt ==
  /\ ~StopRequested(0)
  /\ StopBody(Log(trace, LOGGING_TYPE_ERROR), 0)

Next ==
  \/ \E wid \in WebcamIds \cup {None}, vf \in Paths \cup {None} : process(wid, vf)
  \/ \E wid \in WebcamIds \cup {None}, vf \in Paths \cup {None} : query(wid, vf)
  \/ \E ok \in BOOLEAN, n \in 0..MaxFrames : Open(ok, n)
  \/ While
  \/ Read
  \/ FrameReturn
  \/ FrameStop
  \/ FrameRaise
  \/ Limit
  \/ Release
  \/ Finish
  \/ FinishedReturn
  \/ FinishedRaise
  \/ stop
  \/ keyboard_interrupt

Spec == Init /\ [][Next]_vars

(* ------------------------ reading the trace --------------------------- *)
(* The arguments of the events named e, in order. *)
Args(e) ==
  LET sel == SelectSeq(trace, LAMBDA x : x.ev = e)
  IN [i \in 1..Len(sel) |-> sel[i].arg]

Calls == Args("process_frame")        \* the frame numbers process_frame got
Reads == Args("read")                 \* 1 per frame read, 0 for the failed read
Finished == Args("processing_finished")

AnyStop == StopRequested(0) \/ StopRequested(1)

(* The read loop of a process run is over and nothing raised out of it. *)
LoopEnded ==
  /\ op = "process"
  /\ \/ pc \in {"release", "finish", "processing_finished", "returned"}
     \/ pc = "raised" /\ raisedBy = "processing_finished"

(* ------------------------------ claims -------------------------------- *)
(* C1: with stride k, no max-frame cap, no stop request and an opened      *)
(* source of F frames, the i-th process_frame call gets frame number i*k,  *)
(* the frame number equals the number of frames read so far, and when the  *)
(* loop has ended there were exactly F div k calls.                        *)
C1_StrideSampling ==
  (op = "process" /\ video_capture_opened /\ max_frames <= 0 /\ ~AnyStop) =>
    /\ \A i \in 1..Len(Calls) : Calls[i] = i * nth_frame
    /\ frame_no = video_capture.pos
    /\ frame_no = Len(SelectSeq(Reads, LAMBDA r : r = 1))
    /\ LoopEnded => Len(Calls) = video_capture.frames \div nth_frame

C1_Witness ==
  /\ op = "process" /\ pc = "returned" /\ video_capture_opened
  /\ max_frames <= 0 /\ ~AnyStop
  /\ nth_frame = 2 /\ video_capture.frames = 5 /\ Calls = <<2, 4>>

(* C2: with max_frames = m > 0 process_frame is called at most m times,    *)
(* and once the m-th call has been made the loop is not entered again and  *)
(* no frame beyond the one of the m-th call is read.                       *)
C2_MaxFramesCap ==
  (op = "process" /\ max_frames > 0) =>
    /\ Len(Calls) <= max_frames
    /\ Len(Calls) = max_frames =>
         /\ Len(Reads) = Calls[max_frames]
         /\ pc \notin {"while", "read"}

C2_Witness ==
  /\ op = "process" /\ pc = "returned" /\ max_frames = 2 /\ Len(Calls) = 2
  /\ video_capture.pos < video_capture.frames

(* <<k, 2k, ..., n*k>> *)
Multiples(k, n) == [i \in 1..n |-> i * k]

(* C3: with stride k and max_frames = m > 0 on an opened source of at      *)
(* least m*k frames, a process run that nobody stops and that returns has  *)
(* called process_frame at exactly the frames k, 2k, ..., m*k, and         *)
(* processing_finished (when set) got True.                                *)
C3_CapCountsCallbacks ==
  ( /\ op = "process" /\ pc = "returned" /\ ~AnyStop
    /\ video_capture_opened /\ max_frames > 0
    /\ video_capture.frames >= max_frames * nth_frame ) =>
    /\ Calls = Multiples(nth_frame, max_frames)
    /\ processing_finished => Finished = <<1>>

(* The opening of the source failed in this call. *)
OpenFailed == \E i \in 1..Len(trace) : trace[i] = Ev("open", 0)

(* The handle has been released and process is past line 362's test. *)
PastFinish ==
  \/ pc \in {"processing_finished", "returned"}
  \/ pc = "raised" /\ raisedBy = "processing_finished"

(* C4: a process run whose source fails to open reads no frame, calls      *)
(* process_frame never, raises nothing of its own, and ends with the       *)
(* handle released and processing_finished called exactly once, with False.*)
C4_OpenFailure ==
  (op = "process" /\ OpenFailed) =>
    /\ Reads = <<>>
    /\ Calls = <<>>
    /\ ~video_capture_opened
    /\ raisedBy \in {"", "processing_finished"}
    /\ pc \in {"release", "finish", "processing_finished", "returned", "raised"}
    /\ pc # "release" => video_capture.released
    /\ Len(Finished) <= 1
    /\ (PastFinish /\ processing_finished) => Finished = <<0>>

C4_Witness ==
  /\ op = "process" /\ OpenFailed /\ pc = "returned"
  /\ processing_finished /\ Finished = <<0>> /\ video_capture.released

(* The position of the (first) event e in the trace, 0 when there is none. *)
IndexOf(e) ==
  IF \E i \in 1..Len(trace) : trace[i].ev = e
    THEN CHOOSE i \in 1..Len(trace) :
           trace[i].ev = e /\ \A j \in 1..(i - 1) : trace[j].ev # e
    ELSE 0

(* C5: in a process run that passed _check, with processing_finished set,  *)
(* the completion callback is called at most once, its call comes after    *)
(* the release of the handle and after every read and process_frame call,  *)
(* and it has been called exactly once when the run is past that point,    *)
(* whether the loop ended by open failure, end of stream, limit or stop.   *)
C5_FinishedOnce ==
  (op = "process" /\ processing_finished /\ raisedBy # "_check") =>
    /\ Len(Finished) <= 1
    /\ Finished # <<>> =>
         /\ video_capture.released
         /\ IndexOf("release") # 0
         /\ IndexOf("release") < IndexOf("processing_finished")
         /\ \A j \in 1..Len(trace) :
              trace[j].ev \in {"process_frame", "read", "release", "open"}
                => j < IndexOf("processing_finished")
    /\ PastFinish => Len(Finished) = 1
    /\ (pc \in {"returned", "raised"} /\ raisedBy # "process_frame")
         => Len(Finished) = 1

C5_Witness ==
  /\ op = "process" /\ processing_finished /\ pc = "returned"
  /\ StopRequested(1) /\ Len(Calls) = 2 /\ Finished = <<1>>
  /\ video_capture.pos < video_capture.frames

(* The position of the stop the callback requested, 0 when there is none. *)
CallbackStopAt ==
  IF StopRequested(1)
    THEN CHOOSE i \in 1..Len(trace) : trace[i] = Ev("stop", 1)
    ELSE 0

(* C6: once process_frame has called stop(), no further frame is read and  *)
(* process_frame is not called again in that run, and is_stopped stays     *)
(* true until the next call; a call in which nobody has requested a stop   *)
(* has the flag false, whatever the call before left.                      *)
C6_StopFromCallback ==
  /\ StopRequested(1) =>
       /\ stopped
       /\ \A j \in 1..Len(trace) :
            trace[j].ev \in {"read", "process_frame"} => j < CallbackStopAt
  /\ (op # "none" /\ ~AnyStop) => ~stopped

C6_Witness ==
  /\ op = "process" /\ pc = "returned" /\ StopRequested(1) /\ ~StopRequested(0)
  /\ stopped /\ Calls = <<2>> /\ video_capture.frames = 6 /\ max_frames <= 0

(* The configurations the claim names, each by itself. *)
BadConfig ==
  \/ webcam_id = None /\ video_file = None
  \/ video_file = "missing"
  \/ video_file = "dir"
  \/ ~process_frame

(* C7: process and query raise out of _check, with no source opened and no *)
(* callback called, when no selector is given, when the file is missing,   *)
(* when the file is a directory, or when no process_frame is configured.   *)
C7_CheckRaises ==
  (op # "none" /\ BadConfig) =>
    /\ pc = "raised" /\ raisedBy = "_check"
    /\ video_capture = NoCapture
    /\ \A j \in 1..Len(trace) : trace[j].ev = "stop" \/ trace[j].ev = "log"
    /\ ~OpenFailed /\ Calls = <<>> /\ Finished = <<>>

C7_Witness ==
  /\ op = "query" /\ pc = "raised" /\ raisedBy = "_check"
  /\ webcam_id = "cam0" /\ video_file = "dir" /\ process_frame

(* C8: a call that got past _check has exactly one selector set. *)
C8_ExactlyOneSelector ==
  (op # "none" /\ raisedBy # "_check") =>
    ((webcam_id = None) # (video_file = None))

(* C9: when a call has returned or raised, the handle it opened (if any)   *)
(* has been released.                                                      *)
C9_HandleReleased ==
  (op # "none" /\ pc \in {"returned", "raised"}) =>
    (video_capture.kind = "none" \/ video_capture.released)

(* C10: is_busy is true only while a process_frame call of process runs.   *)
C10_BusyOnlyInCallback ==
  is_processing_frames => (op = "process" /\ pc = "process_frame")

(* The number of ERROR messages logged during the call. *)
ErrorsLogged ==
  Cardinality({i \in 1..Len(trace) : trace[i] = Ev("log", LOGGING_TYPE_ERROR)})

(* The source of this call opened. *)
OpenSucceeded == \E i \in 1..Len(trace) : trace[i] = Ev("open", 1)

(* C11: a query call that passed _check reads no frame and calls neither   *)
(* callback; when it has returned the handle is released, and the result   *)
(* is the info mapping if the source opened and None if it did not, after  *)
(* exactly one ERROR log (no ERROR log on success; keyboard_interrupt,     *)
(* which logs an ERROR of its own, aside).                                 *)
C11_QueryNoCallbacks ==
  (op = "query" /\ raisedBy # "_check") =>
    /\ Reads = <<>> /\ Calls = <<>> /\ Finished = <<>>
    /\ pc # "raised"
    /\ pc = "returned" =>
         /\ video_capture.released
         /\ OpenSucceeded \/ OpenFailed
         /\ OpenSucceeded =>
              /\ result # NoDict
              /\ result = retrieve_info(video_capture, webcam_id)
              /\ ~StopRequested(0) => ErrorsLogged = 0
         /\ OpenFailed =>
              /\ result = NoDict
              /\ ErrorsLogged >= 1
              /\ ~StopRequested(0) => ErrorsLogged = 1

C11_Witness ==
  /\ op = "query" /\ pc = "returned" /\ OpenFailed
  /\ result = NoDict /\ video_capture.released /\ ErrorsLogged = 1
  /\ ~StopRequested(0)

(* C12: the mapping a query returns for an opened source has the keys fps, *)
(* width, height and codec, and frame_count, bitrate and pixel_format too  *)
(* whenever what was opened is a file.                                     *)
C12_QueryKeys ==
  (op = "query" /\ pc = "returned" /\ OpenSucceeded) =>
    /\ {"fps", "width", "height", "codec"} \subseteq DOMAIN result
    /\ video_capture.kind = "file" =>
         {"frame_count", "bitrate", "pixel_format"} \subseteq DOMAIN result

(* The position of the stop requested from outside, 0 when there is none. *)
ExternalStopAt ==
  IF StopRequested(0)
    THEN CHOOSE i \in 1..Len(trace) : trace[i] = Ev("stop", 0)
    ELSE 0

(* The number of events e after position i of the trace. *)
CountAfter(e, i) == Cardinality({j \in (i + 1)..Len(trace) : trace[j] = e})
CountEvAfter(name, i) == Cardinality({j \in (i + 1)..Len(trace) : trace[j].ev = name})

(* This step is a stop() call (by: 1 from process_frame, 0 from outside). *)
StopStep(by) ==
  /\ Len(trace') > Len(trace)
  /\ trace'[Len(trace')] = Ev("stop", by)

(* This step starts a process or query call. *)
StartStep == Idle /\ op' \in {"process", "query"} /\ pc' \in {"open", "raised"}
               /\ trace' = <<>>

(* C14: a stop() from another thread leaves the call where it stands (a    *)
(* process_frame call in progress goes on); after it at most one more      *)
(* frame is read and at most one more process_frame call is made; and a    *)
(* run that returns has released the handle and (when one is set) called   *)
(* processing_finished.                                                    *)
C14_StopIsAdvisory ==
  /\ [][StopStep(0) => /\ pc' = pc
                       /\ frame_no' = frame_no
                       /\ video_capture' = video_capture]_vars
  /\ []((op = "process" /\ StopRequested(0)) =>
          /\ CountAfter(Ev("read", 1), ExternalStopAt) <= 1
          /\ CountEvAfter("read", ExternalStopAt) <= 1
          /\ CountEvAfter("process_frame", ExternalStopAt) <= 1
          /\ (pc = "returned" /\ raisedBy # "_check") =>
               /\ video_capture.released
               /\ CountEvAfter("release", 0) = 1
               /\ processing_finished => Len(Finished) = 1)

(* The stop arrived between the loop test and the read: one more frame was *)
(* read and dispatched, then the run ended with frames left.               *)
C14_Witness ==
  /\ op = "process" /\ pc = "returned" /\ StopRequested(0) /\ ~StopRequested(1)
  /\ CountEvAfter("process_frame", ExternalStopAt) = 1
  /\ CountEvAfter("process_frame", 0) = 2
  /\ video_capture.pos < video_capture.frames
  /\ max_frames <= 0

(* C16: _stopped goes from false to true only in a stop() call and from    *)
(* true to false only at the start of a process or query call; a run that  *)
(* ended by end of stream, limit or open failure with no stop request      *)
(* leaves is_stopped false.                                                *)
C16_StoppedTransitions ==
  /\ [][/\ (~stopped /\ stopped') => (StopStep(0) \/ StopStep(1))
        /\ (stopped /\ ~stopped') => StartStep]_vars
  /\ []((op = "process" /\ ~AnyStop /\ (LoopEnded \/ pc = "raised")) => ~stopped)

C16_Witness ==
  /\ op = "process" /\ pc = "returned" /\ ~AnyStop /\ ~stopped
  /\ LimitReached(frame_no, max_frames)
  /\ video_capture.pos < video_capture.frames

Min(a, b) == IF a <= b THEN a ELSE b

(* C17: with max_frames = m > 0 and no stop request on an opened source of *)
(* F frames, never more than m frames are read, and when the loop has      *)
(* ended exactly min(F, m) frames were read and process_frame was called   *)
(* at k, 2k, ..., that is min(F, m) div k times.                           *)
C17_CapCountsReads ==
  (op = "process" /\ video_capture_opened /\ max_frames > 0 /\ ~AnyStop) =>
    /\ frame_no <= max_frames
    /\ LoopEnded =>
         LET n == Min(video_capture.frames, max_frames)
         IN /\ frame_no = n
            /\ video_capture.pos = n
            /\ CountAfter(Ev("read", 1), 0) = n
            /\ Calls = Multiples(nth_frame, n \div nth_frame)

C17_Witness ==
  /\ op = "process" /\ pc = "returned" /\ ~AnyStop /\ video_capture_opened
  /\ max_frames = 2 /\ nth_frame = 2 /\ video_capture.frames = 5
  /\ frame_no = 2 /\ Calls = <<2>>

(* C19: for a webcam source the brightness entry of the info mapping is    *)
(* the source's brightness and the contrast entry its contrast, so the two *)
(* differ on a device where the two properties differ.                     *)
C19_EntriesNamedAfterProperties ==
  ( /\ op = "query" /\ pc = "returned" /\ OpenSucceeded
    /\ video_capture.kind = "webcam" ) =>
    /\ result["brightness"] = get(video_capture, "CAP_PROP_BRIGHTNESS")
    /\ result["contrast"] = get(video_capture, "CAP_PROP_CONTRAST")
    /\ (get(video_capture, "CAP_PROP_BRIGHTNESS")
          # get(video_capture, "CAP_PROP_CONTRAST"))
         => result["brightness"] # result["contrast"]

(* --------------------- decode_fourcc on its own ----------------------- *)
(* The ASCII bytes the argument is packed from: the ends of the range and  *)
(* the letters of a real code ("MJPG" is 77, 74, 80, 71).                  *)
AsciiBytes == {0, 48, 71, 74, 77, 80, 127}

(* The integer that packs four bytes, least-significant byte first. *)
Pack(b) == b[1] + 256 * b[2] + 65536 * b[3] + 16777216 * b[4]

(* A Processor on which no call was made yet, its arguments at defaults. *)
InitFourcc ==
  /\ nth_frame = 1 /\ max_frames = -1
  /\ process_frame = FALSE /\ processing_finished = FALSE
  /\ webcam_id = None /\ video_file = None
  /\ stopped = FALSE /\ is_processing_frames = FALSE
  /\ params = [video_capture |-> "none", info |-> NoDict]
  /\ op = "none" /\ pc = "idle"
  /\ video_capture = NoCapture /\ frame_no = 0
  /\ video_capture_opened = FALSE /\ result = NoDict
  /\ raisedBy = "" /\ trace = <<>>
  /\ self = 1 /\ peer = DefaultProcessor /\ params_id = DefaultParams
  /\ fourcc \in {[bytes |-> b, cc |-> Pack(b), out |-> <<>>, done |-> FALSE] :
                   b \in AsciiBytes \X AsciiBytes \X AsciiBytes \X AsciiBytes}

(* Lines 7-17: decode_fourcc(cc) returns. *)
DecodeFourcc ==
  /\ ~fourcc.done
  /\ fourcc' = [fourcc EXCEPT !.out = decode_fourcc(fourcc.cc), !.done = TRUE]
  /\ UNCHANGED <<config, webcam_id, video_file, stopped, is_processing_frames,
                 params, op, pc, video_capture, frame_no, video_capture_opened,
                 result, raisedBy, trace, self, peer, params_id>>

SpecFourcc == InitFourcc /\ [][DecodeFourcc]_vars

(* C15: decoding the integer b0 + 256*b1 + 65536*b2 + 16777216*b3 of four  *)
(* ASCII bytes gives back the characters b0, b1, b2, b3 in that order.     *)
C15_FourccRoundTrip ==
  fourcc.done => fourcc.out = fourcc.bytes

C15_Witness ==
  /\ fourcc.done /\ fourcc.bytes = <<77, 74, 80, 71>>
  /\ fourcc.cc = 1196444237 /\ fourcc.out = <<77, 74, 80, 71>>

(* ------------------------ two Processor instances --------------------- *)
(* Two instances, each built by Processor(): all arguments at their        *)
(* defaults, so both got the one Parameters object of the def statement.   *)
InitTwo ==
  /\ nth_frame = DefaultProcessor.nth_frame
  /\ max_frames = DefaultProcessor.max_frames
  /\ process_frame = DefaultProcessor.process_frame
  /\ processing_finished = DefaultProcessor.processing_finished
  /\ webcam_id = None /\ video_file = None
  /\ stopped = FALSE /\ is_processing_frames = FALSE
  /\ params = DefaultProcessor.params
  /\ params_id = DefaultProcessor.params_id
  /\ op = "none" /\ pc = "idle"
  /\ video_capture = NoCapture /\ frame_no = 0
  /\ video_capture_opened = FALSE /\ result = NoDict
  /\ raisedBy = "" /\ trace = <<>>
  /\ self = 1
  /\ peer = DefaultProcessor
  /\ fourcc = NoFourcc

(* Lines 146-154: the process_frame setter, before the instance's calls. *)
set_process_frame(fn) ==
  /\ pc = "idle"
  /\ process_frame' = fn
  /\ UNCHANGED <<others, nth_frame, max_frames, processing_finished, webcam_id,
                 video_file, stopped, is_processing_frames, params, op, pc,
                 video_capture, frame_no, video_capture_opened, result,
                 raisedBy, trace>>

(* Lines 166-174: the processing_finished setter, before the instance's  *)
(* calls.                                                                  *)
set_processing_finished(fn) ==
  /\ pc = "idle"
  /\ processing_finished' = fn
  /\ UNCHANGED <<others, nth_frame, max_frames, process_frame, webcam_id,
                 video_file, stopped, is_processing_frames, params, op, pc,
                 video_capture, frame_no, video_capture_opened, result,
                 raisedBy, trace>>

(* self.params of the other instance: the same object as this instance's   *)
(* when both refer to one Parameters object, else its own.                  *)
PeerParams == IF peer.params_id = params_id THEN params ELSE peer.params

(* Between two calls the caller turns to the other instance: the instance  *)
(* fields change places; a Parameters object both refer to stays what it   *)
(* is.                                                                     *)
Switch ==
  /\ Idle
  /\ self' = 3 - self
  /\ peer' = [nth_frame |-> nth_frame, max_frames |-> max_frames,
              process_frame |-> process_frame,
              processing_finished |-> processing_finished,
              webcam_id |-> webcam_id, video_file |-> video_file,
              stopped |-> stopped,
              is_processing_frames |-> is_processing_frames,
              params_id |-> params_id,
              params |-> IF peer.params_id = params_id
                           THEN DefaultProcessor.params ELSE params]
  /\ nth_frame' = peer.nth_frame
  /\ max_frames' = peer.max_frames
  /\ process_frame' = peer.process_frame
  /\ processing_finished' = peer.processing_finished
  /\ webcam_id' = peer.webcam_id
  /\ video_file' = peer.video_file
  /\ stopped' = peer.stopped
  /\ is_processing_frames' = peer.is_processing_frames
  /\ params_id' = peer.params_id
  /\ params' = PeerParams
  /\ op' = "none" /\ pc' = "idle"
  /\ video_capture' = NoCapture /\ frame_no' = 0
  /\ video_capture_opened' = FALSE /\ result' = NoDict
  /\ raisedBy' = "" /\ trace' = <<>>
  /\ UNCHANGED fourcc

(* The calls of Next on the instance at hand, on sources of at most        *)
(* TwoFrames frames, with nobody stopping the call from outside.           *)
NextTwo ==
  \/ \E wid \in WebcamIds \cup {None}, vf \in Paths \cup {None} : process(wid, vf)
  \/ \E wid \in WebcamIds \cup {None}, vf \in Paths \cup {None} : query(wid, vf)
  \/ \E ok \in BOOLEAN, n \in 0..TwoFrames : Open(ok, n)
  \/ While
  \/ Read
  \/ FrameReturn
  \/ FrameStop
  \/ FrameRaise
  \/ Limit
  \/ Release
  \/ Finish
  \/ FinishedReturn
  \/ FinishedRaise
  \/ \E fn \in BOOLEAN : set_process_frame(fn)
  \/ \E fn \in BOOLEAN : set_processing_finished(fn)
  \/ Switch

SpecTwo == InitTwo /\ [][NextTwo]_vars

(* What can be read through the other instance. *)
PeerView ==
  <<peer.stopped, peer.is_processing_frames, peer.webcam_id, peer.video_file,
    peer.process_frame, peer.processing_finished, PeerParams>>

(* C13: no step of a call on one of two default-constructed instances      *)
(* changes anything that can be read through the other instance, its       *)
(* params included.                                                        *)
C13_NoSharedState ==
  [][(self' = self) => (PeerView' = PeerView)]_vars

(* ------------------- runs that are left to finish --------------------- *)
(* The steps of the thread that runs a call, callbacks that return         *)
(* included.                                                               *)
Steps ==
  \/ \E ok \in BOOLEAN, n \in (0..MaxFrames) \cup {Endless} : Open(ok, n)
  \/ While
  \/ Read
  \/ FrameReturn
  \/ Limit
  \/ Release
  \/ Finish
  \/ FinishedReturn

(* Nothing but a stop request can end this run. *)
OnlyStopEnds ==
  /\ op = "process" /\ pc \in {"while", "read", "process_frame", "limit"}
  /\ video_capture.frames = Endless /\ max_frames <= 0

NextLive ==
  \/ \E wid \in WebcamIds \cup {None}, vf \in Paths \cup {None} : process(wid, vf)
  \/ \E wid \in WebcamIds \cup {None}, vf \in Paths \cup {None} : query(wid, vf)
  \/ Steps
  \/ FrameStop
  \/ stop
  \/ keyboard_interrupt

(* The calling thread keeps running and the callbacks return; where only a *)
(* stop request can end the run, one is eventually issued.                 *)
SpecLive ==
  /\ Init
  /\ [][NextLive]_vars
  /\ WF_vars(Steps)
  /\ WF_vars(OnlyStopEnds /\ (FrameStop \/ stop \/ keyboard_interrupt))

(* C18: a process run that passed _check, whose callbacks return, gets to  *)
(* its return (handle released, processing_finished called when set) when  *)
(* the source is finite, max_frames > 0 or a stop is eventually requested; *)
(* with max_frames = m > 0 at most m frames are read, on an endless source *)
(* too; and the release comes before the processing_finished call.         *)
C18_RunFinishes ==
  /\ (op = "process" /\ pc = "open") ~> (op = "process" /\ pc = "returned")
  /\ []((op = "process" /\ max_frames > 0) => frame_no <= max_frames)
  /\ []((op = "process" /\ pc \in {"processing_finished", "returned"}) =>
          /\ video_capture.released
          /\ CountEvAfter("release", 0) = 1
          /\ CountEvAfter("processing_finished", 0)
               = (IF processing_finished THEN 1 ELSE 0)
          /\ CountEvAfter("processing_finished", IndexOf("release"))
               = CountEvAfter("processing_finished", 0))

C18_Witness ==
  /\ op = "process" /\ pc = "returned" /\ video_capture.frames = Endless
  /\ max_frames = 2 /\ frame_no = 2 /\ ~AnyStop /\ video_capture.released

====
